---- MODULE Spec2Model ----
(***************************************************************************)
(* BESS + PV profitability calculator: the dashboard (app.py), the batch   *)
(* entry point (src/main.py), the analytics functions they call, and the   *)
(* price and weather clients (src/entsoe_client.py, src/weather_client.py).*)
(*                                                                         *)
(* Python floats are modelled as exact rationals <<n, d>> in lowest terms  *)
(* with d > 0; floating-point rounding error is outside the model.         *)
(* <<0, 0>> stands for a Python name that is not bound yet.                *)
(***************************************************************************)
EXTENDS Integers, Sequences, FiniteSets, TLC

\* ------------------------------------------------------------ bounds
\* pv_kwp ranges over 0..MaxPvKwp (kWp).
MaxPvKwp == 2
\* annual_kwh ranges over 4380 * (0..MaxAnnualStep): 0, 0.5, 1, ... kWh per hour.
MaxAnnualStep == 2
\* battery_kwh ranges over 5 * (0..MaxBatteryStep) kWh.
MaxBatteryStep == 2
\* The price file holds source hours 1..N, N in HoursPerDay-1 .. MaxFileHours.
MaxFileHours == 25
\* Price shapes: price of source hour k is 200 + 5 * ((a * k) % 7), a in 0..MaxPattern.
MaxPattern == 2
\* compute_waiting_cost called directly: daily profit n/d with |n| <= MaxProfitNum.
MaxProfitNum == 10
\* compute_waiting_cost called directly: months_delay in -2..MaxMonthsDelay.
MaxMonthsDelay == 6
\* An ENTSO-E response body holds at most MaxPoints Point elements.
MaxPoints == 4
\* The position of a Point is in 1..MaxPosition, or is not an integer.
MaxPosition == 4

\* ------------------------------------------------------------ floats
Abs(x) == IF x < 0 THEN -x ELSE x

RECURSIVE GCD(_, _)
GCD(a, b) == IF b = 0 THEN a ELSE GCD(b, a % b)

\* The float n / d.
Rat(n, d) ==
    LET g == GCD(Abs(n), Abs(d))
        s == IF d < 0 THEN -1 ELSE 1
    IN  <<(s * n) \div g, (s * d) \div g>>

Zero == <<0, 1>>
None == <<0, 0>>
FromInt(i) == <<i, 1>>

LCM(a, b) == (a \div GCD(a, b)) * b

\* x + y; equal denominators add their numerators directly.
RAdd(x, y) ==
    IF x[2] = y[2] THEN Rat(x[1] + y[1], x[2])
    ELSE LET l == LCM(x[2], y[2])
         IN  Rat(x[1] * (l \div x[2]) + y[1] * (l \div y[2]), l)

RNeg(x) == <<-x[1], x[2]>>

RSub(x, y) == RAdd(x, RNeg(y))

RMul(x, y) ==
    IF x[1] = 0 \/ y[1] = 0 THEN Zero
    ELSE LET g1 == GCD(Abs(x[1]), y[2])
             g2 == GCD(Abs(y[1]), x[2])
         IN  Rat((x[1] \div g1) * (y[1] \div g2), (x[2] \div g2) * (y[2] \div g1))

\* x / y for y # 0.
RDiv(x, y) == RMul(x, Rat(y[2], y[1]))

RLe(x, y) ==
    IF x[2] = y[2] THEN x[1] <= y[1]
    ELSE LET l == LCM(x[2], y[2])
         IN  x[1] * (l \div x[2]) <= y[1] * (l \div y[2])

RLt(x, y) == x # y /\ RLe(x, y)

\* Python's min(x, y) and max(x, y).
RMin(x, y) == IF RLt(y, x) THEN y ELSE x
RMax(x, y) == IF RLt(x, y) THEN y ELSE x

\* Python's round(x, 2): the nearest multiple of 0.01, a tie going to the even one.
Round2(x) ==
    IF x[2] = 1 THEN x
    ELSE LET q    == x[1] \div x[2]
             r    == x[1] % x[2]
             c    == (100 * r) \div x[2]
             rest == (100 * r) % x[2]
             up   == \/ 2 * rest > x[2]
                     \/ 2 * rest = x[2] /\ (100 * q + c) % 2 = 1
         IN  Rat(100 * q + c + (IF up THEN 1 ELSE 0), 100)

\* ------------------------------------------------------------ pandas Series
\* A Series is a function from its index labels (hours) to floats.
\* The sum of s over the labels S, halving S by label so the recursion stays shallow.
RECURSIVE SumOver(_, _)
SumOver(s, S) ==
    LET lo == CHOOSE x \in S : \A y \in S : x <= y
        hi == CHOOSE x \in S : \A y \in S : y <= x
        mid == (lo + hi) \div 2
    IN  IF S = {} THEN Zero
        ELSE IF lo = hi THEN s[lo]
        ELSE RAdd(SumOver(s, {x \in S : x <= mid}), SumOver(s, {x \in S : x > mid}))

\* Series.sum()
SeriesSum(s) == SumOver(s, DOMAIN s)

\* Series.clip(upper=u), u a Series on the same index.
ClipUpper(s, u) == [h \in DOMAIN s |-> IF RLt(u[h], s[h]) THEN u[h] ELSE s[h]]

\* Series.clip(lower=0)
ClipLower0(s) == [h \in DOMAIN s |-> IF RLt(s[h], Zero) THEN Zero ELSE s[h]]

\* s - t, s * t on a common index; a Series scaled by a float.
SeriesSub(s, t) == [h \in DOMAIN s |-> RSub(s[h], t[h])]
SeriesMul(s, t) == [h \in DOMAIN s |-> RMul(s[h], t[h])]
SeriesScale(s, k) == [h \in DOMAIN s |-> RMul(s[h], k)]

\* ------------------------------------------------------------ program constants
HoursPerDay == 24
EFFICIENCY == Rat(9, 10)
PV_KWH_PER_KWP_DAY == 3
SOLAR_MULTIPLIER == Rat(5, 2)

PV_PROFILE ==
    LET pct == <<0, 0, 0, 0, 0, 2, 5, 10, 15, 20,
                 25, 30, 32, 30, 25, 20, 15, 10, 5, 2,
                 0, 0, 0, 0>>
    IN  [h \in 0..(HoursPerDay - 1) |-> Rat(pct[h + 1], 100)]

\* ------------------------------------------------------------ state
VARIABLES
    entry,                  \* "app" = app.py, "main" = src/main.py
    pc,                     \* position in the script
    err,                    \* the exception that ended the run, "" if none
    csv,                    \* data/output.csv: source hour -> price_pln_mwh
    day_df,                 \* day_df / day_prices: hour -> price_pln_mwh
    annual_kwh, pv_kwp, battery_kwh, distribution_cost, profile,
    consumption,            \* consumption_series / consumption
    pv_generation,
    self_consumed, remaining_consumption, pv_excess,
    battery_charge_from_pv,
    battery_used,           \* <<>> while the name is not bound
    grid_consumption,       \* grid_consumption_with_battery / grid_consumption
    cost_no_battery, cost_with_battery,
    profit,                 \* profit_daily / profit_battery / daily_profit_pln
    months_delay,
    waiting_cost,
    efficiency,             \* the efficiency argument of simulate_with_battery
    attempt,                \* the loop variable of a client's fetch, 0 outside a fetch
    requests,               \* HTTP requests sent by the fetch so far
    sleeps,                 \* the time.sleep() calls of the fetch, in seconds, in order
    outcomes,               \* how each request of the fetch ended, in order
    response,               \* the body of the last response / the xml_text being parsed
    records                 \* what the fetch or _parse_prices returned

clientVars == <<attempt, requests, sleeps, outcomes, response, records>>

vars == <<clientVars, efficiency,
          entry, pc, err, csv, day_df, annual_kwh, pv_kwp, battery_kwh,
          distribution_cost, profile, consumption, pv_generation, self_consumed,
          remaining_consumption, pv_excess, battery_charge_from_pv, battery_used,
          grid_consumption, cost_no_battery, cost_with_battery, profit,
          months_delay, waiting_cost>>

inputVars == <<annual_kwh, pv_kwp, battery_kwh, distribution_cost, profile>>
balanceVars == <<consumption, pv_generation, self_consumed,
                 remaining_consumption, pv_excess>>
dispatchVars == <<battery_charge_from_pv, battery_used, grid_consumption>>
costVars == <<cost_no_battery, cost_with_battery, profit, months_delay, waiting_cost>>

\* ------------------------------------------------------------ inputs
\* The file update_market_data.py writes: one date, source hours 1..n.
PriceFile(n, a) == [k \in 1..n |-> 200 + 5 * ((a * k) % 7)]

PriceFiles ==
    {PriceFile(n, a) : n \in (HoursPerDay - 1)..MaxFileHours, a \in 0..MaxPattern}

AnnualChoices == {4380 * i : i \in 0..MaxAnnualStep}
PvKwpChoices == 0..MaxPvKwp
BatteryChoices == {5 * i : i \in 0..MaxBatteryStep}
DistributionChoices == {Zero, Rat(45, 100)}

\* Columns of data/load_profiles.csv: the share of a day's consumption per hour.
LoadProfile(name) ==
    [h \in 0..(HoursPerDay - 1) |->
        IF name = "flat" THEN Rat(1, HoursPerDay)
        ELSE IF h \in 8..15 THEN Rat(1, 8) ELSE Zero]

ProfileChoices == {"flat", "business"}

\* ------------------------------------------------------------ shared code
SetMax(S) == CHOOSE x \in S : \A y \in S : y <= x

\* PV_PROFILE * pv_kwp * PV_KWH_PER_KWP_DAY, then .loc[index]
PvGeneration(kwp, index) ==
    [h \in index |-> RMul(RMul(PV_PROFILE[h], FromInt(kwp)), FromInt(PV_KWH_PER_KWP_DAY))]

\* Mutant: the charge is split evenly over the hours instead of by demand.
BatteryUsedEvenSplit(remaining, charge) ==
    [h \in DOMAIN remaining |-> RDiv(charge, FromInt(Cardinality(DOMAIN remaining)))]

\* (remaining_consumption / remaining_consumption.sum()) * battery_charge_from_pv
BatteryUsed(remaining, charge) ==
    SeriesScale(SeriesScale(remaining, RDiv(FromInt(1), SeriesSum(remaining))), charge)

\* prices["price_pln_mwh"] / 1000 + distribution cost
PriceKwh(prices, dist) ==
    [h \in DOMAIN prices |-> RAdd(Rat(prices[h], 1000), dist)]

\* Mutant: the 30 days of a month are left out.
compute_waiting_cost_no30(daily_profit_pln, months) ==
    Round2(RMul(daily_profit_pln, FromInt(months)))

\* compute_waiting_cost(daily_profit_pln, months_delay)
compute_waiting_cost(daily_profit_pln, months) ==
    Round2(RMul(RMul(daily_profit_pln, FromInt(30)), FromInt(months)))

\* ------------------------------------------------------------ app.py
\* load_data(): hours are shifted down by one only when the largest exceeds 23.
load_data(file) ==
    LET shift == IF SetMax(DOMAIN file) > 23 THEN 1 ELSE 0
        hours == {k - shift : k \in DOMAIN file} \cap 0..23
    IN  [h \in hours |-> file[h + shift]]

\* Mutant: the clip is forgotten, all consumption counts as self-consumed.
app_self_consumed_noclip(cons, pv) == cons

app_self_consumed(cons, pv) == ClipUpper(cons, pv)

\* Mutant: the battery counts as full whatever the PV excess.
app_battery_charge_full(excess, battery) == FromInt(battery)

app_battery_charge_from_pv(excess, battery) ==
    RMin(RMul(SeriesSum(excess), EFFICIENCY), FromInt(battery))

\* Mutant: the battery's energy is added to the grid draw instead of taken off it.
app_grid_consumption_plus_battery(remaining, used) ==
    [h \in DOMAIN remaining |-> RAdd(remaining[h], used[h])]

app_grid_consumption_with_battery(remaining, used) ==
    ClipLower0(SeriesSub(remaining, used))

app_cost(energy, prices, dist) == SeriesSum(SeriesMul(energy, PriceKwh(prices, dist)))

\* Mutant: the exception is swallowed and the script carries on.
FailIgnored(e) ==
    /\ pc' = "loaded"
    /\ err' = err

Fail(e) ==
    /\ pc' = "error"
    /\ err' = e

\* df = load_data(); day_df = df[df["date"] == selected_date].set_index("hour").sort_index()
AppLoadData ==
    /\ entry = "app" /\ pc = "start"
    /\ day_df' = load_data(csv)
    /\ pc' = "loaded"
    /\ UNCHANGED <<clientVars, efficiency, entry, err, csv, inputVars, balanceVars, dispatchVars, costVars>>

\* The sidebar inputs, the two 24-slot series and the energy balance.
AppBalance ==
    /\ entry = "app" /\ pc = "loaded"
    /\ \E a \in AnnualChoices, k \in PvKwpChoices, b \in BatteryChoices,
          d \in DistributionChoices :
        /\ annual_kwh' = a /\ pv_kwp' = k /\ battery_kwh' = b
        /\ distribution_cost' = d
        /\ IF Cardinality(DOMAIN day_df) # 24
           THEN \* pd.Series([x] * 24, index=day_df.index): lengths differ
                /\ Fail("ValueError")
                /\ UNCHANGED balanceVars
           ELSE LET cons == [h \in DOMAIN day_df |-> Rat(a, 365 * 24)]
                    pv   == PvGeneration(k, DOMAIN day_df)
                    self == app_self_consumed(cons, pv)
                IN  /\ consumption' = cons
                    /\ pv_generation' = pv
                    /\ self_consumed' = self
                    /\ remaining_consumption' = SeriesSub(cons, self)
                    /\ pv_excess' = SeriesSub(pv, self)
                    /\ pc' = "balanced"
                    /\ err' = err
    /\ UNCHANGED <<clientVars, efficiency, entry, csv, day_df, profile, dispatchVars, costVars>>

AppDispatch ==
    /\ entry = "app" /\ pc = "balanced"
    /\ LET charge == app_battery_charge_from_pv(pv_excess, battery_kwh)
       IN  /\ battery_charge_from_pv' = charge
           /\ IF RLt(Zero, SeriesSum(remaining_consumption)) /\ RLt(Zero, charge)
              THEN LET used == BatteryUsed(remaining_consumption, charge)
                   IN  /\ battery_used' = used
                       /\ grid_consumption' =
                              app_grid_consumption_with_battery(remaining_consumption, used)
              ELSE /\ battery_used' = battery_used
                   /\ grid_consumption' = remaining_consumption
    /\ pc' = "dispatched"
    /\ UNCHANGED <<clientVars, efficiency, entry, err, csv, day_df, inputVars, balanceVars, costVars>>

\* price_kwh and the two costs.
AppCost ==
    /\ entry = "app" /\ pc = "dispatched"
    /\ cost_no_battery' = app_cost(remaining_consumption, day_df, distribution_cost)
    /\ cost_with_battery' = app_cost(grid_consumption, day_df, distribution_cost)
    /\ pc' = "costed"
    /\ UNCHANGED <<clientVars, efficiency, entry, err, csv, day_df, inputVars, balanceVars, dispatchVars,
                   profit, months_delay, waiting_cost>>

\* profit_daily and waiting_cost = compute_waiting_cost(profit_daily, 6)
AppProfit ==
    /\ entry = "app" /\ pc = "costed"
    /\ profit' = RSub(cost_no_battery, cost_with_battery)
    /\ months_delay' = 6
    /\ waiting_cost' = compute_waiting_cost(RSub(cost_no_battery, cost_with_battery), 6)
    /\ pc' = "done"
    /\ UNCHANGED <<clientVars, efficiency, entry, err, csv, day_df, inputVars, balanceVars, dispatchVars,
                   cost_no_battery, cost_with_battery>>

\* ------------------------------------------------------------ src/analytics.py
DefaultDistributionCost == Rat(45, 100)

\* Series.nsmallest(n).index: the n lowest values, the earlier hour first among equals.
RECURSIVE NSmallest(_, _, _)
NSmallest(s, S, n) ==
    IF n = 0 \/ S = {} THEN {}
    ELSE LET h == CHOOSE x \in S :
                    \A y \in S : s[x] < s[y] \/ (s[x] = s[y] /\ x <= y)
         IN  {h} \cup NSmallest(s, S \ {h}, n - 1)

\* Series.nlargest(n).index: the n highest values, the earlier hour first among equals.
RECURSIVE NLargest(_, _, _)
NLargest(s, S, n) ==
    IF n = 0 \/ S = {} THEN {}
    ELSE LET h == CHOOSE x \in S :
                    \A y \in S : s[x] > s[y] \/ (s[x] = s[y] /\ x <= y)
         IN  {h} \cup NLargest(s, S \ {h}, n - 1)

\* Mutant: the efficiency is charged on the charge leg instead of the discharge leg.
simulate_with_battery_charge_leg(prices, battery, eff, dist) ==
    LET cheap_hours     == NSmallest(prices, DOMAIN prices, 3)
        expensive_hours == NLargest(prices, DOMAIN prices, 3)
        energy_per_hour == Rat(battery, 3)
        price           == PriceKwh(prices, dist)
        charge    == [h \in cheap_hours |->
                         RMul(RMul(energy_per_hour, price[h]), eff)]
        discharge == [h \in expensive_hours |-> RMul(energy_per_hour, price[h])]
    IN  RSub(SeriesSum(discharge), SeriesSum(charge))

simulate_with_battery(prices, battery, eff, dist) ==
    LET cheap_hours     == NSmallest(prices, DOMAIN prices, 3)
        expensive_hours == NLargest(prices, DOMAIN prices, 3)
        energy_per_hour == Rat(battery, 3)
        price           == PriceKwh(prices, dist)
        charge    == [h \in cheap_hours |-> RMul(energy_per_hour, price[h])]
        discharge == [h \in expensive_hours |->
                         RMul(RMul(energy_per_hour, price[h]), eff)]
    IN  RSub(SeriesSum(discharge), SeriesSum(charge))

simulate_without_battery(prices, consumption_series, dist) ==
    Round2(SeriesSum(SeriesMul(PriceKwh(prices, dist), consumption_series)))

\* ------------------------------------------------------------ src/load_profile.py
\* df[profile_name] * annual_kwh / 365, indexed by df["hour"]
load_consumption_profile(profile_name, annual) ==
    SeriesScale(LoadProfile(profile_name), Rat(annual, 365))

\* ------------------------------------------------------------ src/main.py
\* df["hour"] = df["hour"] - 1; df = df[df["hour"].between(0, 23)]
main_load(file) ==
    LET hours == {k - 1 : k \in DOMAIN file} \cap 0..23
    IN  [h \in hours |-> file[h + 1]]

\* Mutant: all PV generation counts as self-consumed.
main_self_consumed_allpv(cons, pv) == pv

main_self_consumed(cons, pv) == ClipUpper(cons, pv)

main_battery_charge_from_pv(excess, battery) ==
    RMin(SeriesSum(excess), FromInt(battery))

main_grid_consumption(remaining, used) == SeriesSub(remaining, used)

MainLoadData ==
    /\ entry = "main" /\ pc = "start"
    /\ day_df' = main_load(csv)
    /\ IF Cardinality(DOMAIN main_load(csv)) # 24
       THEN Fail("ValueError: Incomplete day")
       ELSE pc' = "loaded" /\ err' = err
    /\ UNCHANGED <<clientVars, efficiency, entry, csv, inputVars, balanceVars, dispatchVars, costVars>>

\* One pass of the loop over the clients: the client's figures and the energy balance.
MainBalance ==
    /\ entry = "main" /\ pc = "loaded"
    /\ \E a \in AnnualChoices, k \in PvKwpChoices, b \in BatteryChoices,
          p \in ProfileChoices :
        /\ annual_kwh' = a /\ pv_kwp' = k /\ battery_kwh' = b /\ profile' = p
        /\ LET cons == [h \in DOMAIN day_df |-> load_consumption_profile(p, a)[h]]
               pv   == PvGeneration(k, DOMAIN day_df)
               self == main_self_consumed(cons, pv)
           IN  /\ consumption' = cons
               /\ pv_generation' = pv
               /\ self_consumed' = self
               /\ remaining_consumption' = SeriesSub(cons, self)
               /\ pv_excess' = SeriesSub(pv, self)
    /\ pc' = "balanced"
    /\ UNCHANGED <<clientVars, efficiency, entry, err, csv, day_df, distribution_cost, dispatchVars, costVars>>

MainDispatch ==
    /\ entry = "main" /\ pc = "balanced"
    /\ LET charge == main_battery_charge_from_pv(pv_excess, battery_kwh)
       IN  /\ battery_charge_from_pv' = charge
           /\ IF RLt(Zero, SeriesSum(remaining_consumption)) /\ RLt(Zero, charge)
              THEN LET used == BatteryUsed(remaining_consumption, charge)
                   IN  /\ battery_used' = used
                       /\ grid_consumption' = main_grid_consumption(remaining_consumption, used)
              ELSE /\ battery_used' = battery_used
                   /\ grid_consumption' = remaining_consumption
    /\ pc' = "dispatched"
    /\ UNCHANGED <<clientVars, efficiency, entry, err, csv, day_df, inputVars, balanceVars, costVars>>

\* The series main.py hands to simulate_without_battery as the no-battery draw.
main_no_battery_series == grid_consumption

\* cost_no_battery = simulate_without_battery(day_prices, grid_consumption)
MainCost ==
    /\ entry = "main" /\ pc = "dispatched"
    /\ cost_no_battery' = simulate_without_battery(day_df, main_no_battery_series,
                                                   DefaultDistributionCost)
    /\ pc' = "costed"
    /\ UNCHANGED <<clientVars, efficiency, entry, err, csv, day_df, inputVars, balanceVars, dispatchVars,
                   cost_with_battery, profit, months_delay, waiting_cost>>

\* profit_battery = simulate_with_battery(...) * SOLAR_MULTIPLIER, the cost with
\* battery derived from it, and the waiting cost.
main_profit_battery(prices, battery) ==
    RMul(simulate_with_battery(prices, battery, EFFICIENCY, DefaultDistributionCost),
         SOLAR_MULTIPLIER)

MainProfit ==
    /\ entry = "main" /\ pc = "costed"
    /\ profit' = main_profit_battery(day_df, battery_kwh)
    /\ cost_with_battery' = RSub(cost_no_battery, main_profit_battery(day_df, battery_kwh))
    /\ months_delay' = 6
    /\ waiting_cost' = compute_waiting_cost(main_profit_battery(day_df, battery_kwh), 6)
    /\ pc' = "done"
    /\ UNCHANGED <<clientVars, efficiency, entry, err, csv, day_df, inputVars, balanceVars, dispatchVars,
                   cost_no_battery>>

\* ------------------------------------------------------------ a direct call
\* compute_waiting_cost(daily_profit_pln, months_delay) called on its own: the
\* function's body has no check of its arguments and no raise.
CallComputeWaitingCost ==
    /\ entry = "call" /\ pc = "start"
    /\ waiting_cost' = compute_waiting_cost(profit, months_delay)
    /\ pc' = "done"
    /\ UNCHANGED <<clientVars, efficiency, entry, err, csv, day_df, inputVars, balanceVars, dispatchVars,
                   cost_no_battery, cost_with_battery, profit, months_delay>>

\* simulate_with_battery(prices_df, consumption_series, battery_kwh, efficiency,
\* distribution_cost_kwh) called on its own: the body has no check of its
\* arguments and no raise; consumption_series is not read.
CallSimulateWithBattery ==
    /\ entry = "arbitrage" /\ pc = "start"
    /\ profit' = simulate_with_battery(day_df, battery_kwh, efficiency, distribution_cost)
    /\ pc' = "done"
    /\ UNCHANGED <<clientVars, efficiency, entry, err, csv, day_df, inputVars, balanceVars,
                   dispatchVars, cost_no_battery, cost_with_battery, months_delay,
                   waiting_cost>>

\* ------------------------------------------------------------ src/entsoe_client.py
\* A response body: the text of its first resolution element ("" when it has
\* none) and its Point elements in document order. A Point is
\* <<position, price>>; the position is <<p>> for the integer p and <<>> when
\* its text is not an integer.
ResolutionChoices == {"", "PT15M", "PT30M", "PT60M"}
PriceAmountChoices == {FromInt(10), Rat(1004, 100)}
PointChoices ==
    {<<pos, price>> : pos \in {<<>>} \cup {<<q>> : q \in 1..MaxPosition},
                      price \in PriceAmountChoices}
PointSeqs(maxLen) == UNION {[1..n -> PointChoices] : n \in 0..maxLen}
XmlDocuments(maxLen) ==
    {[kind |-> "xml", resolution |-> r, points |-> pts] :
        r \in ResolutionChoices, pts \in PointSeqs(maxLen)}

points_per_hour(resolution) ==
    IF resolution = "PT15M" THEN 4
    ELSE IF resolution = "PT30M" THEN 2
    ELSE 1

\* The Points with an integer position, as {"position": pos, "price": price}.
raw_points(points) ==
    LET kept == SelectSeq(points, LAMBDA pt : pt[1] # <<>>)
    IN  [k \in DOMAIN kept |-> [position |-> kept[k][1][1], price |-> kept[k][2]]]

\* raw_points.sort(key=lambda r: r["position"]): equal positions keep their order.
RECURSIVE SortByPosition(_)
SortByPosition(s) ==
    IF s = <<>> THEN <<>>
    ELSE LET first == Head(s)
             rest  == SortByPosition(Tail(s))
         IN  SelectSeq(rest, LAMBDA r : r.position < first.position)
             \o <<first>>
             \o SelectSeq(rest, LAMBDA r : r.position >= first.position)

\* _parse_prices(xml_text, date_iso) for a body with at least one valid Point:
\* the records, one per chunk of points_per_hour sorted points.
_parse_prices(doc) ==
    LET pph == points_per_hour(doc.resolution)
        raw == SortByPosition(raw_points(doc.points))
        n   == (Len(raw) + pph - 1) \div pph
    IN  [j \in 1..n |->
            LET i     == (j - 1) * pph
                last  == IF i + pph < Len(raw) THEN i + pph ELSE Len(raw)
                chunk == SubSeq(raw, i + 1, last)
            IN  [hour |-> (i \div pph) + 1,
                 price_eur_mwh |->
                     Round2(RDiv(SeriesSum([k \in DOMAIN chunk |-> chunk[k].price]),
                                 FromInt(Len(chunk))))]]

\* _parse_prices called on its own on a well-formed body.
CallParsePrices ==
    /\ entry = "parse" /\ pc = "start"
    /\ IF raw_points(response.points) = <<>>
       THEN /\ Fail("ValueError")
            /\ records' = records
       ELSE /\ records' = _parse_prices(response)
            /\ pc' = "done"
            /\ err' = err
    /\ UNCHANGED <<attempt, requests, sleeps, outcomes, response, efficiency, entry,
                   csv, day_df, inputVars, balanceVars, dispatchVars, costVars>>

\* ------------------------------------------------------------ the fetch loops
\* src/config.py
MAX_RETRIES == 3
RETRY_BACKOFF == FromInt(2)

\* What one session.get() of the price client can bring: a RequestException
\* (connection, timeout, HTTP status), a body that is not XML, or an XML body.
EntsoeResponses ==
    {[kind |-> k, resolution |-> "", points |-> <<>>] : k \in {"http_error", "malformed"}}
    \cup XmlDocuments(1)

\* What one session.get() of the weather client can bring: a RequestException,
\* a body that is not JSON, or a JSON payload with or without "hourly" data
\* and so many windspeed_10m values.
WeatherResponses ==
    {[kind |-> k, hourly |-> FALSE, hours_count |-> 0] : k \in {"http_error", "bad_json"}}
    \cup {[kind |-> "json", hourly |-> b, hours_count |-> IF b THEN n ELSE 0] :
              b \in BOOLEAN, n \in (HoursPerDay - 1)..MaxFileHours}

\* _parse_hourly(payload) for a payload with hourly data: hour idx + 1 holds
\* the values at idx.
_parse_hourly(payload) == [hour \in 1..payload.hours_count |-> hour - 1]

\* The except branch of both loops: sleep and go round again, or leave the
\* loop at the last attempt and raise RuntimeError.
RetryOrGiveUp ==
    IF attempt < MAX_RETRIES
    THEN /\ sleeps' = Append(sleeps, RMul(RETRY_BACKOFF, FromInt(attempt)))
         /\ attempt' = attempt + 1
         /\ pc' = pc
         /\ err' = err
    ELSE /\ Fail("RuntimeError")
         /\ UNCHANGED <<sleeps, attempt>>

\* One pass of the loop of ENTSOEClient.fetch_day_ahead_prices.
EntsoeAttempt ==
    /\ entry = "entsoe" /\ pc = "attempt"
    /\ \E r \in EntsoeResponses :
        /\ requests' = requests + 1
        /\ response' = r
        /\ IF r.kind = "xml" /\ raw_points(r.points) # <<>>
           THEN \* return self._parse_prices(response.text, date_iso)
                /\ outcomes' = Append(outcomes, "ok")
                /\ records' = _parse_prices(r)
                /\ pc' = "done"
                /\ UNCHANGED <<err, sleeps, attempt>>
           ELSE IF r.kind = "xml"
           THEN \* _parse_prices raises ValueError, which the except clause
                \* (requests.RequestException, ET.ParseError) does not catch
                /\ outcomes' = Append(outcomes, "ValueError")
                /\ Fail("ValueError")
                /\ UNCHANGED <<records, sleeps, attempt>>
           ELSE /\ outcomes' = Append(outcomes, IF r.kind = "malformed" THEN "ParseError"
                                                ELSE "RequestException")
                /\ RetryOrGiveUp
                /\ UNCHANGED records
    /\ UNCHANGED <<efficiency, entry, csv, day_df, inputVars, balanceVars, dispatchVars,
                   costVars>>

\* One pass of the loop of WeatherClient._fetch_city_weather.
WeatherAttempt ==
    /\ entry = "weather" /\ pc = "attempt"
    /\ \E r \in WeatherResponses :
        /\ requests' = requests + 1
        /\ response' = r
        /\ IF r.kind = "json" /\ r.hourly
           THEN \* return self._parse_hourly(payload)
                /\ outcomes' = Append(outcomes, "ok")
                /\ records' = _parse_hourly(r)
                /\ pc' = "done"
                /\ UNCHANGED <<err, sleeps, attempt>>
           ELSE \* RequestException, or ValueError from response.json() or from
                \* _parse_hourly: both are caught
                /\ outcomes' = Append(outcomes, IF r.kind = "http_error"
                                                THEN "RequestException" ELSE "ValueError")
                /\ RetryOrGiveUp
                /\ UNCHANGED records
    /\ UNCHANGED <<efficiency, entry, csv, day_df, inputVars, balanceVars, dispatchVars,
                   costVars>>

\* ------------------------------------------------------------ specification
\* No client is fetching and nothing is being parsed.
ClientIdle ==
    /\ attempt = 0 /\ requests = 0
    /\ sleeps = <<>> /\ outcomes = <<>>
    /\ response = <<>> /\ records = <<>>

Init ==
    /\ entry \in {"app", "main"}
    /\ pc = "start"
    /\ err = ""
    /\ csv \in PriceFiles
    /\ day_df = <<>>
    /\ annual_kwh = -1 /\ pv_kwp = -1 /\ battery_kwh = -1
    /\ distribution_cost = None /\ profile = ""
    /\ consumption = <<>> /\ pv_generation = <<>> /\ self_consumed = <<>>
    /\ remaining_consumption = <<>> /\ pv_excess = <<>>
    /\ battery_charge_from_pv = None /\ battery_used = <<>> /\ grid_consumption = <<>>
    /\ cost_no_battery = None /\ cost_with_battery = None /\ profit = None
    /\ months_delay = 0 /\ waiting_cost = None
    /\ efficiency = EFFICIENCY
    /\ ClientIdle

Next ==
    \/ AppLoadData
    \/ AppBalance
    \/ AppDispatch
    \/ AppCost
    \/ AppProfit
    \/ MainLoadData
    \/ MainBalance
    \/ MainDispatch
    \/ MainCost
    \/ MainProfit

Spec == Init /\ [][Next]_vars

\* compute_waiting_cost on its own, for every daily profit and months_delay drawn.
ProfitChoices == {Rat(n, d) : n \in (-MaxProfitNum)..MaxProfitNum, d \in {1, 7, 1000}}

InitWaitingCost ==
    /\ entry = "call"
    /\ pc = "start"
    /\ err = ""
    /\ csv = <<>>
    /\ day_df = <<>>
    /\ annual_kwh = -1 /\ pv_kwp = -1 /\ battery_kwh = -1
    /\ distribution_cost = None /\ profile = ""
    /\ consumption = <<>> /\ pv_generation = <<>> /\ self_consumed = <<>>
    /\ remaining_consumption = <<>> /\ pv_excess = <<>>
    /\ battery_charge_from_pv = None /\ battery_used = <<>> /\ grid_consumption = <<>>
    /\ cost_no_battery = None /\ cost_with_battery = None
    /\ profit \in ProfitChoices
    /\ months_delay \in (-2)..MaxMonthsDelay
    /\ waiting_cost = None
    /\ efficiency = EFFICIENCY
    /\ ClientIdle

NextWaitingCost == CallComputeWaitingCost

SpecWaitingCost == InitWaitingCost /\ [][NextWaitingCost]_vars

\* simulate_with_battery on its own, for every day of prices, capacity,
\* efficiency and distribution cost drawn.
EfficiencyChoices == {Rat(-1, 2), Zero, Rat(1, 2), EFFICIENCY, FromInt(1), Rat(3, 2)}

InitArbitrage ==
    /\ entry = "arbitrage"
    /\ pc = "start"
    /\ err = ""
    /\ csv \in PriceFiles
    /\ day_df = main_load(csv)
    /\ annual_kwh = -1 /\ pv_kwp = -1
    /\ battery_kwh \in BatteryChoices
    /\ distribution_cost \in DistributionChoices
    /\ profile = ""
    /\ consumption = <<>> /\ pv_generation = <<>> /\ self_consumed = <<>>
    /\ remaining_consumption = <<>> /\ pv_excess = <<>>
    /\ battery_charge_from_pv = None /\ battery_used = <<>> /\ grid_consumption = <<>>
    /\ cost_no_battery = None /\ cost_with_battery = None /\ profit = None
    /\ months_delay = 0 /\ waiting_cost = None
    /\ efficiency \in EfficiencyChoices
    /\ ClientIdle

NextArbitrage == CallSimulateWithBattery

SpecArbitrage == InitArbitrage /\ [][NextArbitrage]_vars

\* Nothing of the calculator is loaded or bound.
CoreIdle ==
    /\ csv = <<>> /\ day_df = <<>>
    /\ annual_kwh = -1 /\ pv_kwp = -1 /\ battery_kwh = -1
    /\ distribution_cost = None /\ profile = ""
    /\ consumption = <<>> /\ pv_generation = <<>> /\ self_consumed = <<>>
    /\ remaining_consumption = <<>> /\ pv_excess = <<>>
    /\ battery_charge_from_pv = None /\ battery_used = <<>> /\ grid_consumption = <<>>
    /\ cost_no_battery = None /\ cost_with_battery = None /\ profit = None
    /\ months_delay = 0 /\ waiting_cost = None
    /\ efficiency = EFFICIENCY

\* _parse_prices on its own, for every body drawn.
InitParsePrices ==
    /\ entry = "parse"
    /\ pc = "start"
    /\ err = ""
    /\ CoreIdle
    /\ attempt = 0 /\ requests = 0 /\ sleeps = <<>> /\ outcomes = <<>>
    /\ response \in XmlDocuments(MaxPoints)
    /\ records = <<>>

NextParsePrices == CallParsePrices

SpecParsePrices == InitParsePrices /\ [][NextParsePrices]_vars

\* One fetch of the price client or of the weather client (one city).
InitFetch ==
    /\ entry \in {"entsoe", "weather"}
    /\ pc = "attempt"
    /\ err = ""
    /\ CoreIdle
    /\ attempt = 1 /\ requests = 0 /\ sleeps = <<>> /\ outcomes = <<>>
    /\ response = <<>> /\ records = <<>>

NextFetch ==
    \/ EntsoeAttempt
    \/ WeatherAttempt

SpecFetch == InitFetch /\ [][NextFetch]_vars

\* ------------------------------------------------------------ properties
Hours == 0..(HoursPerDay - 1)
IsRun == entry \in {"app", "main"}
Balanced == IsRun /\ pc \in {"balanced", "dispatched", "costed", "done"}
Dispatched == IsRun /\ pc \in {"dispatched", "costed", "done"}

\* C1: in both entry points, once the energy balance is computed, every hour
\* 0..23 has self_consumed[h] equal to the smaller of consumption[h] and
\* pv_generation[h]: it is one of the two, not above either, and not negative.
C1_SelfConsumedIsMin ==
    Balanced =>
        /\ DOMAIN self_consumed = Hours
        /\ \A h \in Hours :
            /\ RLe(self_consumed[h], consumption[h])
            /\ RLe(self_consumed[h], pv_generation[h])
            /\ self_consumed[h] \in {consumption[h], pv_generation[h]}
            /\ RLe(Zero, self_consumed[h])

\* C1 witness: a dashboard balance with an hour where PV is strictly below
\* consumption and an hour where it is strictly above.
C1_Witness ==
    /\ Balanced /\ entry = "app"
    /\ \E h \in Hours : RLt(Zero, pv_generation[h]) /\ RLt(pv_generation[h], consumption[h])
    /\ \E h \in Hours : RLt(Zero, consumption[h]) /\ RLt(consumption[h], pv_generation[h])

\* C2: in both entry points, for every hour, remaining + self-consumed is the
\* consumption, excess + self-consumed is the PV generation, and neither the
\* remaining consumption nor the excess is negative.
C2_BalanceConserved ==
    Balanced =>
        \A h \in Hours :
            /\ RAdd(remaining_consumption[h], self_consumed[h]) = consumption[h]
            /\ RAdd(pv_excess[h], self_consumed[h]) = pv_generation[h]
            /\ RLe(Zero, remaining_consumption[h])
            /\ RLe(Zero, pv_excess[h])

\* C2 witness: a batch balance with an hour of deficit and an hour of surplus.
C2_Witness ==
    /\ Balanced /\ entry = "main"
    /\ \E h \in Hours : RLt(Zero, remaining_consumption[h]) /\ RLt(Zero, self_consumed[h])
    /\ \E h \in Hours : RLt(Zero, pv_excess[h]) /\ RLt(Zero, self_consumed[h])

\* The battery energy allocated to hour h; 0 where battery_used is not bound.
UsedAt(h) == IF h \in DOMAIN battery_used THEN battery_used[h] ELSE Zero

\* C3 (as claimed): in both entry points the day's available charge is
\* min(sum(pv_excess) * EFFICIENCY, battery_kwh).
C3_ChargeAppliesEfficiency ==
    Dispatched =>
        battery_charge_from_pv =
            RMin(RMul(SeriesSum(pv_excess), EFFICIENCY), FromInt(battery_kwh))

\* C4: in both entry points, when the day's remaining consumption and the
\* available charge are both positive, every hour's battery_used is its share
\* remaining[h] / sum(remaining) of the charge and the shares add up to the
\* charge; otherwise nothing is allocated; so the allocated total never
\* exceeds the charge.
C4_ProportionalDispatch ==
    Dispatched =>
        LET total == SeriesSum(remaining_consumption)
        IN  /\ IF RLt(Zero, total) /\ RLt(Zero, battery_charge_from_pv)
               THEN /\ DOMAIN battery_used = Hours
                    /\ \A h \in Hours :
                          RMul(battery_used[h], total) =
                              RMul(remaining_consumption[h], battery_charge_from_pv)
                    /\ SeriesSum(battery_used) = battery_charge_from_pv
               ELSE battery_used = <<>>
            /\ RLe(SeriesSum(battery_used), battery_charge_from_pv)

\* C4 witness: a dispatch over hours of unequal demand, so unequal shares.
C4_Witness ==
    /\ Dispatched
    /\ RLt(Zero, battery_charge_from_pv)
    /\ \E h1, h2 \in DOMAIN battery_used :
          RLt(Zero, battery_used[h1]) /\ RLt(battery_used[h1], battery_used[h2])

\* C5 (as claimed): in both entry points the battery-adjusted grid draw of every
\* hour is max(remaining[h] - battery_used[h], 0): never negative, never above
\* the remaining consumption.
C5_GridDrawClamped ==
    Dispatched =>
        \A h \in Hours :
            /\ grid_consumption[h] =
                   RMax(RSub(remaining_consumption[h], UsedAt(h)), Zero)
            /\ RLe(Zero, grid_consumption[h])
            /\ RLe(grid_consumption[h], remaining_consumption[h])

\* C6: in the dashboard, when PV generation is zero in every hour, or the
\* capacity is 0, or no consumption remains, the grid draw with battery is the
\* remaining consumption in every hour (the consumption itself when PV is all
\* zero), the two costs are equal and the daily profit is 0.
C6_BatteryIdleWithoutChargeOrDemand ==
    (Dispatched /\ entry = "app") =>
        LET noPv == \A h \in Hours : pv_generation[h] = Zero
        IN  (noPv \/ battery_kwh = 0 \/ SeriesSum(remaining_consumption) = Zero) =>
                /\ grid_consumption = remaining_consumption
                /\ noPv => grid_consumption = consumption
                /\ pc \in {"costed", "done"} => cost_with_battery = cost_no_battery
                /\ pc = "done" => profit = Zero

\* C6 witness: a finished dashboard run with a battery and consumption but no PV.
C6_Witness ==
    /\ entry = "app" /\ pc = "done"
    /\ pv_kwp = 0 /\ battery_kwh > 0 /\ annual_kwh > 0
    /\ RLt(Zero, cost_no_battery)

\* The cost the Cost Evaluator is specified to return: the sum over the hours
\* of energy[h] * (prices[h] / 1000 + dist).
CostOf(energy, prices, dist) ==
    SeriesSum([h \in DOMAIN energy |->
                  RMul(energy[h], RAdd(Rat(prices[h], 1000), dist))])

Costed == IsRun /\ pc \in {"costed", "done"}

\* C7 (as claimed): every cost an entry point obtains is the sum over the hours
\* of the energy series times (price / 1000 + distribution cost) of the same
\* hour: both costs of app.py, and what simulate_without_battery returns for the
\* series main.py gives it; 1 kWh in each hour at 200 PLN/MWh and 0.45 costs 15.6.
C7_CostIsExactSum ==
    Costed =>
        /\ entry = "app" =>
              /\ cost_no_battery =
                     CostOf(remaining_consumption, day_df, distribution_cost)
              /\ cost_with_battery =
                     CostOf(grid_consumption, day_df, distribution_cost)
        /\ entry = "main" =>
              cost_no_battery = CostOf(grid_consumption, day_df, DefaultDistributionCost)
        /\ ( /\ \A h \in Hours : remaining_consumption[h] = FromInt(1) /\ day_df[h] = 200
             /\ entry = "app" => distribution_cost = Rat(45, 100)
             /\ grid_consumption = remaining_consumption )
           => cost_no_battery = Rat(156, 10)

\* The cost evaluator of each entry point.
EvaluateCost(energy) ==
    IF entry = "app" THEN app_cost(energy, day_df, distribution_cost)
    ELSE simulate_without_battery(day_df, energy, DefaultDistributionCost)

\* C8 (as claimed): in both entry points cost_no_battery is the evaluator's cost
\* of remaining_consumption, cost_with_battery its cost of the battery-adjusted
\* grid draw, and the reported daily profit is their difference.
C8_ProfitIsCostDifference ==
    (IsRun /\ pc = "done") =>
        /\ cost_no_battery = EvaluateCost(remaining_consumption)
        /\ cost_with_battery = EvaluateCost(grid_consumption)
        /\ profit = RSub(cost_no_battery, cost_with_battery)

IsCall == entry = "call" /\ pc = "done"
ExactWaitingCost == RMul(RMul(profit, FromInt(30)), FromInt(months_delay))
\* x is a whole number of hundredths.
HasTwoDecimals(x) == 100 % x[2] = 0
RAbs(x) == <<Abs(x[1]), x[2]>>

\* C9 (as claimed): for months_delay >= 0 compute_waiting_cost returns exactly
\* daily_profit_pln * 30 * months_delay.
C9_WaitingCostIsExactProduct ==
    (IsCall /\ months_delay >= 0) => waiting_cost = ExactWaitingCost

\* C9 (amended): for months_delay >= 0 compute_waiting_cost returns
\* daily_profit_pln * 30 * months_delay rounded to 2 decimals: a whole number
\* of hundredths at most 0.005 from the product, the product itself when that
\* has at most 2 decimals (10 and 6 give 1800), and 0 when either argument is 0.
C9_WaitingCostIsRoundedProduct ==
    (IsCall /\ months_delay >= 0) =>
        /\ HasTwoDecimals(waiting_cost)
        /\ RLe(RAbs(RSub(waiting_cost, ExactWaitingCost)), Rat(1, 200))
        /\ HasTwoDecimals(ExactWaitingCost) => waiting_cost = ExactWaitingCost
        /\ (profit = Zero \/ months_delay = 0) => waiting_cost = Zero
        /\ (profit = FromInt(10) /\ months_delay = 6) => waiting_cost = FromInt(1800)

\* C9 witness: a call with a positive delay whose product has more than 2
\* decimals, so the rounding acts.
C9_Witness ==
    /\ IsCall /\ months_delay > 0
    /\ ~HasTwoDecimals(ExactWaitingCost)
    /\ waiting_cost # ExactWaitingCost

\* C10 (as claimed): a call with a negative months_delay ends in an
\* InvalidArgument error and yields no number.
C10_NegativeDelayRejected ==
    (IsCall /\ months_delay < 0) =>
        /\ err = "InvalidArgument"
        /\ waiting_cost = None

IsArbitrageCall == entry = "arbitrage" /\ pc = "done"

\* C11 (as claimed): a call of simulate_with_battery with an efficiency outside
\* (0, 1] ends in an InvalidEfficiency error and yields no profit figure.
C11_InvalidEfficiencyRejected ==
    (IsArbitrageCall /\ ~(RLt(Zero, efficiency) /\ RLe(efficiency, FromInt(1)))) =>
        /\ err = "InvalidEfficiency"
        /\ profit = None

\* The selected day has been loaded and holds fewer than 24 hourly prices.
ShortDay == IsRun /\ pc # "start" /\ Cardinality(DOMAIN day_df) < HoursPerDay

NothingComputed ==
    /\ consumption = <<>> /\ pv_generation = <<>> /\ self_consumed = <<>>
    /\ remaining_consumption = <<>> /\ pv_excess = <<>>
    /\ battery_charge_from_pv = None /\ battery_used = <<>> /\ grid_consumption = <<>>
    /\ cost_no_battery = None /\ cost_with_battery = None
    /\ profit = None /\ waiting_cost = None

\* C12: in both entry points a selected day with fewer than 24 hourly prices
\* ends the run with an exception before anything is computed: the batch run
\* fails while loading, the dashboard's next step after loading is the
\* failure, and no series, charge, cost, profit or waiting cost is ever bound.
C12_IncompleteDayRejected ==
    /\ [](ShortDay =>
            /\ pc \in {"loaded", "error"}
            /\ entry = "main" => pc = "error"
            /\ pc = "error" => err # ""
            /\ NothingComputed)
    /\ [][(ShortDay /\ pc = "loaded") => (pc' = "error" /\ err' # "")]_vars

\* C12 witness: the dashboard rejected a 23-hour day.
C12_Witness ==
    /\ ShortDay /\ entry = "app" /\ pc = "error"
    /\ Cardinality(DOMAIN csv) = HoursPerDay - 1
    /\ NothingComputed

\* C13 (as claimed): for every price file of source hours 1..N, the day an entry
\* point computes on holds the price of source hour k at slot k - 1, for the
\* slots 0..23, and app.py's load_data and main.py map the file alike.
C13_SourceHourToSlot ==
    (IsRun /\ pc # "start") =>
        /\ DOMAIN day_df = {k - 1 : k \in DOMAIN csv} \cap Hours
        /\ \A h \in DOMAIN day_df : h + 1 \in DOMAIN csv /\ day_df[h] = csv[h + 1]
        /\ load_data(csv) = main_load(csv)

\* The number of hours of the day that come before h when the hours are put in
\* order of rising (dir = 1) or falling (dir = -1) price, the earlier hour first
\* among equal prices.
PriceRank(h, dir) ==
    Cardinality({y \in DOMAIN day_df :
                    \/ dir * day_df[y] < dir * day_df[h]
                    \/ day_df[y] = day_df[h] /\ y < h})

CheapestThree == {h \in DOMAIN day_df : PriceRank(h, 1) < 3}
DearestThree == {h \in DOMAIN day_df : PriceRank(h, -1) < 3}
EffectivePrice(h) == RAdd(Rat(day_df[h], 1000), distribution_cost)

\* C14: simulate_with_battery charges battery_kwh / 3 in each of the 3 cheapest
\* hours at the full effective price (price / 1000 + distribution cost),
\* discharges the same quantity in each of the 3 dearest hours credited at the
\* effective price times the efficiency, and returns credits minus charges.
C14_PriceArbitrage ==
    IsArbitrageCall =>
        LET energy  == Rat(battery_kwh, 3)
            charges == SumOver([h \in CheapestThree |-> RMul(energy, EffectivePrice(h))],
                               CheapestThree)
            credits == SumOver([h \in DearestThree |->
                                   RMul(RMul(energy, EffectivePrice(h)), efficiency)],
                               DearestThree)
        IN  /\ Cardinality(CheapestThree) = 3
            /\ Cardinality(DearestThree) = 3
            /\ \A h \in CheapestThree, y \in DOMAIN day_df \ CheapestThree :
                  day_df[h] <= day_df[y]
            /\ \A h \in DearestThree, y \in DOMAIN day_df \ DearestThree :
                  day_df[h] >= day_df[y]
            /\ profit = RSub(credits, charges)

\* C14 witness: a call with a battery, an efficiency strictly between 0 and 1
\* and a day whose cheap and dear hours differ in price.
C14_Witness ==
    /\ IsArbitrageCall
    /\ battery_kwh > 0
    /\ RLt(Zero, efficiency) /\ RLt(efficiency, FromInt(1))
    /\ CheapestThree \cap DearestThree = {}
    /\ \E h \in CheapestThree, y \in DearestThree : day_df[h] < day_df[y]
    /\ profit \notin {None, Zero}

IsParseCall == entry = "parse" /\ pc = "done"

\* The Points of the parsed body, by place in the document, whose position is
\* an integer in (h - 1) * perHour + 1 .. h * perHour.
PointsOfHour(h, perHour) ==
    {k \in DOMAIN response.points :
        /\ response.points[k][1] # <<>>
        /\ response.points[k][1][1] \in ((h - 1) * perHour + 1)..(h * perHour)}

MeanPrice(K) ==
    RDiv(SumOver([k \in K |-> response.points[k][2]], K), FromInt(Cardinality(K)))

\* C16 (as claimed): for a body of resolution PT15M (4 points per hour), PT30M
\* (2) or PT60M (1), the records _parse_prices returns are numbered 1..N in
\* order, and the price of the record of hour h is the mean of exactly the
\* source points positioned in (h-1)*pointsPerHour + 1 .. h*pointsPerHour,
\* whichever positions are present, absent or repeated.
C16_HourIsMeanOfItsPositions ==
    (IsParseCall /\ response.resolution \in {"PT15M", "PT30M", "PT60M"}) =>
        LET perHour == IF response.resolution = "PT15M" THEN 4
                       ELSE IF response.resolution = "PT30M" THEN 2 ELSE 1
        IN  \A j \in DOMAIN records :
                /\ records[j].hour = j
                /\ PointsOfHour(j, perHour) # {}
                /\ records[j].price_eur_mwh = MeanPrice(PointsOfHour(j, perHour))

IsFetch == entry \in {"entsoe", "weather"}

\* The failed attempts so far that are not the last one allowed.
FailedBeforeLast == {k \in DOMAIN outcomes : outcomes[k] # "ok" /\ k < MAX_RETRIES}

\* C15 (as claimed): a fetch of either client sends at most MAX_RETRIES
\* requests and none after a successful one, returns the parsed body of that
\* one, has slept RETRY_BACKOFF * k after each failed attempt k < MAX_RETRIES
\* and at no other time, and ends in an error only as RuntimeError after
\* MAX_RETRIES failed attempts.
C15_RetryProtocol ==
    IsFetch =>
        /\ requests <= MAX_RETRIES
        /\ Len(outcomes) = requests
        /\ \A k \in 1..(requests - 1) : outcomes[k] # "ok"
        /\ sleeps = [k \in 1..Cardinality(FailedBeforeLast) |->
                         RMul(RETRY_BACKOFF, FromInt(k))]
        /\ pc = "attempt" => attempt = requests + 1 /\ attempt <= MAX_RETRIES
        /\ pc = "done" =>
              /\ outcomes[requests] = "ok"
              /\ records = IF entry = "entsoe" THEN _parse_prices(response)
                            ELSE _parse_hourly(response)
        /\ pc = "error" =>
              /\ err = "RuntimeError"
              /\ requests = MAX_RETRIES
              /\ \A k \in DOMAIN outcomes : outcomes[k] # "ok"

\* C17: in the dashboard, with no negative consumption, PV generation,
\* capacity, price or distribution cost, the grid draw with battery is at most
\* the remaining consumption in every hour, cost_with_battery is at most
\* cost_no_battery, and so profit_daily and the 6-month waiting cost are not
\* negative.
C17_BatteryNeverRaisesCost ==
    ( /\ entry = "app" /\ Dispatched
      /\ annual_kwh >= 0 /\ pv_kwp >= 0 /\ battery_kwh >= 0
      /\ RLe(Zero, distribution_cost)
      /\ \A h \in Hours : day_df[h] >= 0 ) =>
        /\ \A h \in Hours : RLe(grid_consumption[h], remaining_consumption[h])
        /\ pc \in {"costed", "done"} => RLe(cost_with_battery, cost_no_battery)
        /\ pc = "done" =>
              /\ RLe(Zero, profit)
              /\ months_delay = 6
              /\ RLe(Zero, waiting_cost)

\* C17 witness: a finished dashboard run in which the battery was used and
\* lowered the daily cost.
C17_Witness ==
    /\ entry = "app" /\ pc = "done"
    /\ battery_used # <<>>
    /\ RLt(cost_with_battery, cost_no_battery)
    /\ RLt(Zero, profit) /\ RLt(Zero, waiting_cost)

====
